---- MODULE Spec2Model ----
(***************************************************************************)
(* Classical shadow tomography (shadow_tomography_linear.ipynb).           *)
(*                                                                         *)
(* The model covers the snapshot builders (getSnapshot / invM and the      *)
(* Kronecker loop of get_pauli_shadow), the shot loops                     *)
(* (get_clifford_shadow, get_pauli_shadow), the aggregator                 *)
(* (chunks, get_estimators), the median-of-means estimator                 *)
(* (get_fidelity_prediction) and the driver cells that chain them.         *)
(*                                                                         *)
(* Numbers.  Every entry the notebook computes lies in the ring            *)
(* Z[i][1/sqrt 2][1/m]: an array is stored exactly as                      *)
(*      [e |-> exponent, d |-> divisor, m |-> rows of <<re, im>>]          *)
(* and stands for the numpy array  m / (d * sqrt(2)^e).  An array with     *)
(* d = 0 stands for "the numpy call raised".                               *)
(* Where the rounding of float64 decides a property, the builders are      *)
(* given a second time over IEEE binary64 numbers (getSnapshot64, invM64). *)
(***************************************************************************)
EXTENDS Integers, Sequences, FiniteSets, TLC

VARIABLES
    N,          \* number of shots the run is configured with
    K,          \* number of batches the run is configured with
    nqubits,    \* number of qubits
    ensemble,   \* "clifford" | "pauli": which shadow function the driver calls
    psi,        \* reference statevector handed to get_fidelity_prediction
    pc,         \* position of the driver
    shot,       \* number of completed iterations of `for _ in range(N)`
    Udg,        \* clifford: the sampled unitary's conjugate transpose
    qbases,     \* pauli: qubit index -> basis id (0 = X, 1 = Y, 2 = Z)
    mc,         \* the measurement circuit of the shot: its instructions
    which_measure, \* pauli: qubit index -> the draw n_pauli_circuit made for it
    memory,     \* the bitstring the backend returned for the current shot
    snapshot,   \* the snapshot built for the current shot
    shadow,     \* the list shadow_clifford / shadow_pauli
    estimators, \* the list get_estimators returned
    prediction, \* the value get_fidelity_prediction returned
    exc,        \* the exception that ended the run ("none" while it runs)
    nSampled,   \* calls of n_clifford_circuit / n_pauli_circuit so far
    nMeasured   \* calls of qiskit.execute(..., shots=1) so far

vars == <<N, K, nqubits, ensemble, psi, pc, shot, Udg, qbases, mc,
          which_measure, memory, snapshot, shadow, estimators, prediction,
          exc, nSampled, nMeasured>>

----------------------------------------------------------------------------
(* Bounds of the model.                                                    *)

\* largest number of qubits of a pipeline run
MaxQubits == 2
\* a pipeline run measures at most this many bits in all (N * nqubits)
MaxRunBits == 3
\* longest shadow handed to get_estimators on its own
MaxShadow == 5
\* longest list of estimators handed to get_fidelity_prediction on its own
MaxBatches == 5
\* longest bitstring handed to a snapshot builder on its own
MaxOutcome == 3
\* largest number of qubits handed to a sampler on its own
MaxSampleQubits == 3
\* largest number of qubits of a getSnapshot call computed in binary64
MaxGlobalQubits == 2

----------------------------------------------------------------------------
(* Integer helpers.                                                        *)

Max(a, b) == IF a >= b THEN a ELSE b

\* a Python list / numpy axis with its items computed (once)
ListOf(f) == SubSeq(f, 1, Len(f))

Abs(a) == IF a >= 0 THEN a ELSE -a

Pow2(k) == 2 ^ k

\* floor(a / b) for b # 0 (np.floor of the true quotient)
FloorDiv(a, b) == IF b > 0 THEN a \div b ELSE (-a) \div (-b)

\* int(a / b) for b # 0: Python's int() truncates toward zero
TruncDiv(a, b) ==
    IF (a >= 0) = (b > 0) THEN Abs(a) \div Abs(b) ELSE -(Abs(a) \div Abs(b))

----------------------------------------------------------------------------
(* Complex numbers with integer parts.                                     *)

CZero == <<0, 0>>
COne == <<1, 0>>
CI == <<0, 1>>
CAdd(a, b) == <<a[1] + b[1], a[2] + b[2]>>
CMul(a, b) == <<a[1] * b[1] - a[2] * b[2], a[1] * b[2] + a[2] * b[1]>>
CConj(a) == <<a[1], -a[2]>>
CScale(k, a) == <<k * a[1], k * a[2]>>

RECURSIVE CSum(_)
CSum(s) == IF s = <<>> THEN CZero ELSE CAdd(Head(s), CSum(Tail(s)))

----------------------------------------------------------------------------
(* numpy arrays (2-d), exact.                                              *)

ErrArr == [e |-> 0, d |-> 0, m |-> <<>>]
IsErr(A) == A.d = 0
Rows(A) == Len(A.m)
Cols(A) == IF Len(A.m) = 0 THEN 0 ELSE Len(A.m[1])
Shape(A) == <<Rows(A), Cols(A)>>

Arr(mat) == [e |-> 0, d |-> 1, m |-> mat]

\* np.eye(k)
Eye(k) ==
    Arr([i \in 1..k |-> [j \in 1..k |-> IF i = j THEN COne ELSE CZero]])

\* k * A for a Python int k
ScaleInt(k, A) ==
    IF IsErr(A) THEN ErrArr
    ELSE [A EXCEPT !.m = [i \in 1..Rows(A) |->
                            [j \in 1..Cols(A) |-> CScale(k, A.m[i][j])]]]

\* A / k for a positive number k (get_estimators divides only when a chunk
\* exists, that is when int(N/K) >= 1, and then floor(N/K) >= 1 as well)
DivInt(A, k) ==
    IF IsErr(A) \/ k <= 0 THEN ErrArr ELSE [A EXCEPT !.d = A.d * k]

\* A.conj().T
ConjT(A) ==
    IF IsErr(A) THEN ErrArr
    ELSE [A EXCEPT !.m = [j \in 1..Cols(A) |->
                            [i \in 1..Rows(A) |-> CConj(A.m[i][j])]]]

\* A.dot(B): raises ValueError when the inner dimensions differ
Dot(A, B) ==
    IF IsErr(A) \/ IsErr(B) \/ Cols(A) # Rows(B) THEN ErrArr
    ELSE [e |-> A.e + B.e, d |-> A.d * B.d,
          m |-> [i \in 1..Rows(A) |-> [j \in 1..Cols(B) |->
                   CSum([k \in 1..Cols(A) |-> CMul(A.m[i][k], B.m[k][j])])]]]

\* numpy broadcasting of two 2-d shapes: each axis equal, or one of them 1
Broadcastable(A, B) ==
    /\ (Rows(A) = Rows(B) \/ Rows(A) = 1 \/ Rows(B) = 1)
    /\ (Cols(A) = Cols(B) \/ Cols(A) = 1 \/ Cols(B) = 1)

\* A + s*B (s = 1: np.add, s = -1: subtraction), with broadcasting.  Both
\* operands are brought to the common exponent and divisor first; the
\* exponents of the operands differ by an even number wherever the notebook
\* adds or subtracts (outer products, np.eye, snapshots, estimators).
Combine(A, B, s) ==
    IF IsErr(A) \/ IsErr(B) \/ ~Broadcastable(A, B) THEN ErrArr
    ELSE LET E == Max(A.e, B.e)
             D == IF A.d = B.d THEN A.d ELSE A.d * B.d
             fa == Pow2((E - A.e) \div 2) * (D \div A.d)
             fb == s * Pow2((E - B.e) \div 2) * (D \div B.d)
             R == Max(Rows(A), Rows(B))
             C == Max(Cols(A), Cols(B))
             ea(i, j) == A.m[IF Rows(A) = 1 THEN 1 ELSE i]
                            [IF Cols(A) = 1 THEN 1 ELSE j]
             eb(i, j) == B.m[IF Rows(B) = 1 THEN 1 ELSE i]
                            [IF Cols(B) = 1 THEN 1 ELSE j]
         IN  [e |-> E, d |-> D,
              m |-> [i \in 1..R |-> [j \in 1..C |->
                       CAdd(CScale(fa, ea(i, j)), CScale(fb, eb(i, j)))]]]

ArrAdd(A, B) == Combine(A, B, 1)
ArrSub(A, B) == Combine(A, B, -1)

\* np.kron(A, B)
Kron(A, B) ==
    IF IsErr(A) \/ IsErr(B) THEN ErrArr
    ELSE [e |-> A.e + B.e, d |-> A.d * B.d,
          m |-> [r \in 1..(Rows(A) * Rows(B)) |->
                  [c \in 1..(Cols(A) * Cols(B)) |->
                     CMul(A.m[((r - 1) \div Rows(B)) + 1][((c - 1) \div Cols(B)) + 1],
                          B.m[((r - 1) % Rows(B)) + 1][((c - 1) % Cols(B)) + 1])]]]

\* Two arrays stand for the same numpy array (used to state properties)
SameArr(A, B) ==
    /\ ~IsErr(A) /\ ~IsErr(B)
    /\ Shape(A) = Shape(B)
    /\ LET Z == ArrSub(A, B)
       IN  \A i \in 1..Rows(Z) : \A j \in 1..Cols(Z) : Z.m[i][j] = CZero

----------------------------------------------------------------------------
(* Bitstrings and the snapshot builders.                                   *)

\* all bitstrings of length k, as sequences of 0/1 (first character first)
BitStrings(k) == [1..k -> {0, 1}]

\* int(bitstring, 2)
RECURSIVE BinValue(_)
BinValue(bits) ==
    IF bits = <<>> THEN 0
    ELSE 2 * BinValue(SubSeq(bits, 1, Len(bits) - 1)) + bits[Len(bits)]

\* bitToVector: the one-hot column of length 2^len; int('', 2) raises
bitToVector(bitstring) ==
    IF Len(bitstring) = 0 THEN ErrArr
    ELSE Arr([i \in 1..Pow2(Len(bitstring)) |->
                <<IF i = BinValue(bitstring) + 1 THEN COne ELSE CZero>>])

\* invM: (2**n + 1) * rho - np.eye(2**n)
invM(rho, n) == ArrSub(ScaleInt(Pow2(n) + 1, rho), Eye(Pow2(n)))

\* getSnapshot: Udg.dot(state), outer product with itself, inverse channel
getSnapshot(state, U, n) ==
    LET rotated == Dot(U, state)
        outer == Dot(rotated, ConjT(rotated))
    IN  invM(outer, n)

----------------------------------------------------------------------------
(* What a call gives back: a value, or the exception it raised.            *)

Ok(v) == [ok |-> TRUE, val |-> v, exc |-> "none"]
Raise(x) == [ok |-> FALSE, val |-> <<>>, exc |-> x]

----------------------------------------------------------------------------
(* The two ensembles.                                                      *)

\* H = np.array([[1,1],[1,-1]])/np.sqrt(2)
GateH == [e |-> 1, d |-> 1,
          m |-> << <<COne, COne>>, <<COne, CScale(-1, COne)>> >>]
\* S = np.array([[1,0],[0,1j]])
GateS == Arr(<< <<COne, CZero>>, <<CZero, CI>> >>)
\* I = np.eye(2)
GateI == Eye(2)
\* Udgs = [H, S.dot(H), I], indexed by the basis id
Udgs == <<GateH, Dot(GateS, GateH), GateI>>

\* controlled-X on two qubits
GateCX == Arr(<< <<COne, CZero, CZero, CZero>>, <<CZero, COne, CZero, CZero>>,
                 <<CZero, CZero, CZero, COne>>, <<CZero, CZero, COne, CZero>> >>)

RECURSIVE TensorPower(_, _)
TensorPower(G, n) == IF n = 0 THEN Arr(<< <<COne>> >>) ELSE Kron(TensorPower(G, n - 1), G)

\* Unitaries random_clifford(n) may return (a sample of the Clifford group):
\* the n-fold powers of I, H and H.S^dagger, and for n >= 2 the entangling
\* CX.(H (x) I) on the first two qubits.
CliffordSamples(n) ==
    {TensorPower(GateI, n), TensorPower(GateH, n),
     TensorPower(Dot(GateH, ConjT(GateS)), n)}
    \cup (IF n >= 2
          THEN {Kron(Dot(GateCX, Kron(GateH, GateI)), TensorPower(GateI, n - 2))}
          ELSE {})

\* one instruction of a QuantumCircuit: a gate and the qubits it acts on
Instr(g, qs) == [gate |-> g, qubits |-> qs]

\* qc.measure(q, c): one measurement per qubit, qubit i into clbit i
MeasureAll(n) == [i \in 1..n |-> Instr("measure", {i - 1})]

\* n_clifford_circuit: Udg = G.to_matrix().conj().T for a random Clifford G,
\* qc = the gate G on all qubits, then the measurements
n_clifford_circuit(n) ==
    {[Udg |-> ConjT(U),
      qc |-> <<Instr("unitary", 0..(n - 1))>> \o MeasureAll(n)] :
        U \in CliffordSamples(n)}

\* the values np.random.rand(1,1) returns, in sixths: 0, 1/6, ..., 5/6
\* (2 stands for the float 1/3, 4 for the float 2/3)
Draws == 0..5

\* PauliBranch with the first comparison inclusive: which_measure <= 1/3
PauliBranchInclusive(w, qbit) ==
    IF 3 * w <= 6
    THEN [id |-> 0, gates |-> <<Instr("h", {qbit})>>]
    ELSE IF 3 * w >= 6 /\ 3 * w < 12
    THEN [id |-> 1, gates |-> <<Instr("sdg", {qbit}), Instr("h", {qbit})>>]
    ELSE [id |-> 2, gates |-> <<>>]

\* the if / elif / else of n_pauli_circuit for the draw w of qubit qbit:
\* the gates appended to qc and the value stored in qbases[qbit]
PauliBranch(w, qbit) ==
    IF 3 * w < 6
    THEN [id |-> 0, gates |-> <<Instr("h", {qbit})>>]
    ELSE IF 3 * w >= 6 /\ 3 * w < 12
    THEN [id |-> 1, gates |-> <<Instr("sdg", {qbit}), Instr("h", {qbit})>>]
    ELSE [id |-> 2, gates |-> <<>>]

\* `for qbit in range(n)` of n_pauli_circuit, from index qbit on; w holds the
\* draws, qb and qc what the earlier iterations left
RECURSIVE PauliLoop(_, _, _, _, _)
PauliLoop(n, w, qbit, qb, qc) ==
    IF qbit >= n THEN [qbases |-> qb, qc |-> qc \o MeasureAll(n), which_measure |-> w]
    ELSE LET br == PauliBranch(w[qbit], qbit)
         IN  PauliLoop(n, w, qbit + 1,
                       [q \in 0..qbit |-> IF q = qbit THEN br.id ELSE qb[q]],
                       qc \o br.gates)

\* n_pauli_circuit: what it may return (qbases, qc), with the draws it made
n_pauli_circuit(n) ==
    {PauliLoop(n, w, 0, <<>>, <<>>) : w \in [0..(n - 1) -> Draws]}

\* the bits left in the order the backend returned them: memory[::1]
KeepOrder(s) == [i \in 1..Len(s) |-> s[i]]

\* memory[::-1]
Reverse(s) == [i \in 1..Len(s) |-> s[Len(s) + 1 - i]]

\* `for bit in range(len(memory))` of get_pauli_shadow, from index bit on
RECURSIVE PauliKron(_, _, _, _)
PauliKron(mem, qb, bit, acc) ==
    IF bit >= Len(mem) THEN Ok(acc)
    ELSE IF bit \notin DOMAIN qb THEN Raise("KeyError")
    ELSE LET b == bitToVector(<<mem[bit + 1]>>)
             sub == getSnapshot(b, Udgs[qb[bit] + 1], 1)
         IN  IF IsErr(sub) THEN Raise("ValueError")
             ELSE PauliKron(mem, qb, bit + 1, Kron(acc, sub))

\* get_pauli_shadow, one shot: reverse the bits, snapshot = 1, kron the factors
buildPauliSnapshot(mem, qb) ==
    PauliKron(Reverse(mem), qb, 0, Arr(<< <<COne>> >>))

\* get_clifford_shadow, one shot: b = bitToVector(memory); getSnapshot(b, Udg, n)
buildCliffordSnapshot(mem, U, n) ==
    LET s == getSnapshot(bitToVector(mem), U, n)
    IN  IF IsErr(s) THEN Raise("ValueError") ELSE Ok(s)

----------------------------------------------------------------------------
(* The aggregator.                                                         *)

\* chunks with the slice one too long: lst[i:i+n+1]
chunksOverlap(lst, n) ==
    IF n = 0 THEN Raise("ValueError")
    ELSE IF n < 0 THEN Ok(<<>>)
    ELSE Ok([c \in 1..((Len(lst) + n - 1) \div n) |->
               SubSeq(lst, (c - 1) * n + 1,
                      IF c * n + 1 <= Len(lst) THEN c * n + 1 ELSE Len(lst))])

\* list(chunks(lst, n)): lst[i:i+n] for i in range(0, len(lst), n)
chunks(lst, n) ==
    IF n = 0 THEN Raise("ValueError")
    ELSE IF n < 0 THEN Ok(<<>>)
    ELSE Ok([c \in 1..((Len(lst) + n - 1) \div n) |->
               SubSeq(lst, (c - 1) * n + 1,
                      IF c * n <= Len(lst) THEN c * n ELSE Len(lst))])

\* reduce(np.add, shade) for a non-empty shade
RECURSIVE ReduceAdd(_)
ReduceAdd(shade) ==
    IF Len(shade) = 1 THEN shade[1]
    ELSE ArrAdd(ReduceAdd(SubSeq(shade, 1, Len(shade) - 1)), shade[Len(shade)])

\* get_estimators(shadow, N, K)
get_estimators(shdw, n, k) ==
    IF k = 0 THEN Raise("ZeroDivisionError")
    ELSE LET shades == chunks(shdw, TruncDiv(n, k))
         IN  IF ~shades.ok THEN shades
             ELSE LET ests == [c \in 1..Len(shades.val) |->
                                 DivInt(ReduceAdd(shades.val[c]), FloorDiv(n, k))]
                  IN  IF \E c \in 1..Len(ests) : IsErr(ests[c])
                      THEN Raise("ValueError")
                      ELSE Ok(ests)

----------------------------------------------------------------------------
(* The median-of-means estimator.                                          *)

\* A scalar [e, d, z] stands for z / (d * sqrt(2)^e), z = <<re, im>>.
\* The two numerators of x and y over their common denominator.
SAligned(x, y) ==
    LET E == Max(x.e, y.e)
    IN  <<CScale(Pow2((E - x.e) \div 2) * y.d, x.z),
          CScale(Pow2((E - y.e) \div 2) * x.d, y.z)>>

\* numpy's order on complex numbers: by real part, then by imaginary part
SLeq(x, y) ==
    LET a == SAligned(x, y)
    IN  a[1][1] < a[2][1] \/ (a[1][1] = a[2][1] /\ a[1][2] <= a[2][2])

\* np.mean([x, y])
SMean2(x, y) ==
    LET a == SAligned(x, y)
    IN  [e |-> Max(x.e, y.e), d |-> 2 * x.d * y.d, z |-> CAdd(a[1], a[2])]

\* state_fidelity(psi, rho, validate=False) = <psi| rho |psi>
state_fidelity(ps, rho) ==
    LET v == Dot(Dot(ConjT(ps), rho), ps)
    IN  IF IsErr(v) THEN [e |-> 0, d |-> 0, z |-> CZero]
        ELSE [e |-> v.e, d |-> v.d, z |-> v.m[1][1]]

\* the position of values[i] in the sorted list: one more than the number
\* of values before it in numpy's order (equal values keep their order)
Rank(values, i) ==
    Cardinality({j \in 1..Len(values) :
                    \/ ~SLeq(values[i], values[j])
                    \/ (j < i /\ SLeq(values[j], values[i]))}) + 1

\* np.sort(values)
Sorted(values) ==
    LET rank == ListOf([i \in 1..Len(values) |-> Rank(values, i)])
    IN  ListOf([k \in 1..Len(values) |->
                  values[CHOOSE i \in 1..Len(values) : rank[i] = k]])

\* the median with the upper middle value taken for an even count
MedianUpperMiddle(values) == Sorted(values)[(Len(values) \div 2) + 1]

\* the median with the sort left out
MedianUnsorted(values) ==
    IF Len(values) % 2 = 1 THEN values[(Len(values) + 1) \div 2]
    ELSE SMean2(values[Len(values) \div 2], values[(Len(values) \div 2) + 1])

\* np.median of a non-empty list: the middle of the sorted values, or the
\* mean of the two middle ones
Median(values) ==
    LET s == Sorted(values)
        n == Len(values)
    IN  IF n % 2 = 1 THEN s[(n + 1) \div 2]
        ELSE SMean2(s[n \div 2], s[(n \div 2) + 1])

\* np.real(x)
Real(x) == [nan |-> FALSE, e |-> x.e, d |-> x.d, re |-> x.z[1]]

\* np.median([]) is nan
NaN == [nan |-> TRUE, e |-> 0, d |-> 1, re |-> 0]

\* get_fidelity_prediction(estimators, psi)
get_fidelity_prediction(ests, ps) ==
    LET predictions == ListOf([i \in 1..Len(ests) |-> state_fidelity(ps, ests[i])])
    IN  IF \E i \in 1..Len(ests) : predictions[i].d = 0 THEN Raise("QiskitError")
        ELSE IF Len(ests) = 0 THEN Ok(NaN)
        ELSE Ok(Real(Median(predictions)))

\* generateGHZ + statevector_simulator: |0> for one qubit, else
\* (|0...0> + |1...1>) / sqrt(2)
GHZState(n) ==
    IF n = 1 THEN Arr(<< <<COne>>, <<CZero>> >>)
    ELSE [e |-> 1, d |-> 1,
          m |-> [i \in 1..Pow2(n) |->
                   <<IF i = 1 \/ i = Pow2(n) THEN COne ELSE CZero>>]]

----------------------------------------------------------------------------
(* IEEE binary64: the numbers numpy computes with.  getSnapshot and invM   *)
(* once more, with every product and sum rounded the way float64 and       *)
(* complex128 arithmetic rounds it (to nearest, ties to even; no value     *)
(* here is near overflow or underflow).                                    *)

\* Natural numbers of any size: the limbs in base 2^13, lowest first, the
\* highest one non-zero (zero is the empty sequence).
LimbBits == 13
Base == Pow2(LimbBits)

Limb(a, i) == IF i <= Len(a) THEN a[i] ELSE 0

RECURSIVE BNorm(_)
BNorm(a) ==
    IF a = <<>> \/ a[Len(a)] # 0 THEN a ELSE BNorm(SubSeq(a, 1, Len(a) - 1))

RECURSIVE BAddFrom(_, _, _, _)
BAddFrom(a, b, i, carry) ==
    IF i > Max(Len(a), Len(b)) THEN (IF carry = 0 THEN <<>> ELSE <<carry>>)
    ELSE LET t == Limb(a, i) + Limb(b, i) + carry
         IN  <<t % Base>> \o BAddFrom(a, b, i + 1, t \div Base)
BAdd(a, b) == BAddFrom(a, b, 1, 0)

\* a - b for a >= b
RECURSIVE BSubFrom(_, _, _, _)
BSubFrom(a, b, i, borrow) ==
    IF i > Len(a) THEN <<>>
    ELSE LET t == a[i] - Limb(b, i) - borrow
         IN  <<t % Base>> \o BSubFrom(a, b, i + 1, IF t < 0 THEN 1 ELSE 0)
BSub(a, b) == BNorm(BSubFrom(a, b, 1, 0))

\* a < b
BLess(a, b) ==
    \/ Len(a) < Len(b)
    \/ /\ Len(a) = Len(b)
       /\ \E i \in 1..Len(a) :
             a[i] < b[i] /\ \A j \in (i + 1)..Len(a) : a[j] = b[j]

\* a * k for 0 <= k < Base
RECURSIVE BMulSmallFrom(_, _, _, _)
BMulSmallFrom(a, k, i, carry) ==
    IF i > Len(a) THEN (IF carry = 0 THEN <<>> ELSE <<carry>>)
    ELSE LET t == a[i] * k + carry
         IN  <<t % Base>> \o BMulSmallFrom(a, k, i + 1, t \div Base)
BMulSmall(a, k) == IF k = 0 THEN <<>> ELSE BMulSmallFrom(a, k, 1, 0)

\* a * Base^n
BShiftLimbs(a, n) == IF a = <<>> THEN <<>> ELSE [i \in 1..n |-> 0] \o a

RECURSIVE BMulFrom(_, _, _)
BMulFrom(a, b, j) ==
    IF j > Len(b) THEN <<>>
    ELSE BAdd(BShiftLimbs(BMulSmall(a, b[j]), j - 1), BMulFrom(a, b, j + 1))
BMul(a, b) == BMulFrom(a, b, 1)

\* a \div d for 0 < d < Base, limbs i..1 with the remainder so far
RECURSIVE BDivSmallFrom(_, _, _, _)
BDivSmallFrom(a, d, i, rem) ==
    IF i = 0 THEN <<>>
    ELSE LET cur == rem * Base + a[i]
         IN  BDivSmallFrom(a, d, i - 1, cur % d) \o <<cur \div d>>
BDivSmall(a, d) == BNorm(BDivSmallFrom(a, d, Len(a), 0))

\* a * 2^k and a \div 2^k
BShl(a, k) == BShiftLimbs(BMulSmall(a, Pow2(k % LimbBits)), k \div LimbBits)
BShr(a, k) ==
    BDivSmall(SubSeq(a, (k \div LimbBits) + 1, Len(a)), Pow2(k % LimbBits))

\* bit k of a (bit 0 is the lowest)
Bit(a, k) == (Limb(a, (k \div LimbBits) + 1) \div Pow2(k % LimbBits)) % 2

\* number of bits of a
BitLen(a) ==
    IF a = <<>> THEN 0
    ELSE (Len(a) - 1) * LimbBits
         + (CHOOSE k \in 1..LimbBits :
               Pow2(k - 1) <= a[Len(a)] /\ a[Len(a)] < Pow2(k))

\* number of zero bits below the lowest set bit of a # 0
TrailingZeros(a) ==
    LET i == CHOOSE i \in 1..Len(a) : a[i] # 0 /\ \A j \in 1..(i - 1) : a[j] = 0
        k == CHOOSE k \in 0..(LimbBits - 1) :
                (a[i] \div Pow2(k)) % 2 = 1 /\ a[i] % Pow2(k) = 0
    IN  (i - 1) * LimbBits + k

\* the natural number k < Base^2 as limbs
BNat(k) == BNorm(<<k % Base, k \div Base>>)

\* A binary64 number, and any exact sum or product of such numbers, is a
\* dyadic number s * m * 2^x: sign s in {-1, 0, 1}, m odd (zero: s = 0).
DZero == [s |-> 0, m |-> <<>>, x |-> 0]
Canon(v) ==
    IF v.s = 0 \/ v.m = <<>> THEN DZero
    ELSE LET tz == TrailingZeros(v.m)
         IN  [s |-> v.s, m |-> BShr(v.m, tz), x |-> v.x + tz]

\* exact product and sum
XMul(a, b) ==
    IF a.s = 0 \/ b.s = 0 THEN DZero
    ELSE Canon([s |-> a.s * b.s, m |-> BMul(a.m, b.m), x |-> a.x + b.x])
XAdd(a, b) ==
    IF a.s = 0 THEN b
    ELSE IF b.s = 0 THEN a
    ELSE LET e == IF a.x <= b.x THEN a.x ELSE b.x
             ma == BShl(a.m, a.x - e)
             mb == BShl(b.m, b.x - e)
         IN  IF a.s = b.s THEN Canon([s |-> a.s, m |-> BAdd(ma, mb), x |-> e])
             ELSE IF ma = mb THEN DZero
             ELSE IF BLess(mb, ma) THEN Canon([s |-> a.s, m |-> BSub(ma, mb), x |-> e])
             ELSE Canon([s |-> b.s, m |-> BSub(mb, ma), x |-> e])
DNeg(a) == [a EXCEPT !.s = -a.s]
DInt(k) == IF k = 0 THEN DZero
           ELSE Canon([s |-> IF k > 0 THEN 1 ELSE -1,
                       m |-> BNat(IF k > 0 THEN k ELSE -k), x |-> 0])

\* the nearest binary64 number, ties to even (53 bits of precision)
Round64(v) ==
    LET L == BitLen(v.m)
        k == L - 53
    IN  IF L <= 53 THEN v
        ELSE LET q == BShr(v.m, k)
                 guard == Bit(v.m, k - 1)
                 sticky == BShl(BShr(v.m, k - 1), k - 1) # v.m
                 up == guard = 1 /\ (sticky \/ Bit(q, 0) = 1)
             IN  Canon([s |-> v.s, m |-> IF up THEN BAdd(q, <<1>>) ELSE q,
                        x |-> v.x + k])

FMul(a, b) == Round64(XMul(a, b))
FAdd(a, b) == Round64(XAdd(a, b))
FSub(a, b) == Round64(XAdd(a, DNeg(b)))

\* 1/np.sqrt(2) in binary64: 0x1.6a09e667f3bccp-1 = 0x16a09e667f3bcc * 2^-53
\* (0.7071067811865475), the limbs of 0x16a09e667f3bcc lowest first
InvSqrt2 == Canon([s |-> 1, m |-> <<7116, 5113, 1945, 3393, 1>>, x |-> -53])

\* complex128: <<re, im>> of binary64 numbers
ZZero == <<DZero, DZero>>
ZOne == <<DInt(1), DZero>>
ZAdd(a, b) == <<FAdd(a[1], b[1]), FAdd(a[2], b[2])>>
ZSub(a, b) == <<FSub(a[1], b[1]), FSub(a[2], b[2])>>
ZMul(a, b) ==
    <<FSub(FMul(a[1], b[1]), FMul(a[2], b[2])),
      FAdd(FMul(a[1], b[2]), FMul(a[2], b[1]))>>
ZConj(a) == <<a[1], DNeg(a[2])>>
ZNeg(a) == <<DNeg(a[1]), DNeg(a[2])>>

RECURSIVE ZSum(_)
ZSum(s) ==
    IF Len(s) = 1 THEN s[1]
    ELSE ZAdd(ZSum(SubSeq(s, 1, Len(s) - 1)), s[Len(s)])

\* a 2-d array of complex128, or the mark of a numpy call that raised
Err64 == [err |-> TRUE, m |-> <<>>]
Arr64(mat) == [err |-> FALSE, m |-> mat]
Rows64(A) == Len(A.m)
Cols64(A) == IF Len(A.m) = 0 THEN 0 ELSE Len(A.m[1])

\* np.eye(k)
Eye64(k) ==
    Arr64([i \in 1..k |-> [j \in 1..k |-> IF i = j THEN ZOne ELSE ZZero]])

\* k * A for a Python int k
ScaleInt64(k, A) ==
    IF A.err THEN Err64
    ELSE Arr64([i \in 1..Rows64(A) |-> [j \in 1..Cols64(A) |->
                  <<FMul(DInt(k), A.m[i][j][1]), FMul(DInt(k), A.m[i][j][2])>>]])

\* A.conj().T
ConjT64(A) ==
    IF A.err THEN Err64
    ELSE Arr64([j \in 1..Cols64(A) |-> [i \in 1..Rows64(A) |-> ZConj(A.m[i][j])]])

\* A.dot(B)
Dot64(A, B) ==
    IF A.err \/ B.err \/ Cols64(A) # Rows64(B) \/ Cols64(A) = 0 THEN Err64
    ELSE Arr64([i \in 1..Rows64(A) |-> [j \in 1..Cols64(B) |->
                  ZSum([k \in 1..Cols64(A) |-> ZMul(A.m[i][k], B.m[k][j])])]])

\* A - B, with numpy's broadcasting
Sub64(A, B) ==
    IF \/ A.err \/ B.err
       \/ ~(Rows64(A) = Rows64(B) \/ Rows64(A) = 1 \/ Rows64(B) = 1)
       \/ ~(Cols64(A) = Cols64(B) \/ Cols64(A) = 1 \/ Cols64(B) = 1)
    THEN Err64
    ELSE Arr64([i \in 1..Max(Rows64(A), Rows64(B)) |->
                 [j \in 1..Max(Cols64(A), Cols64(B)) |->
                    ZSub(A.m[IF Rows64(A) = 1 THEN 1 ELSE i][IF Cols64(A) = 1 THEN 1 ELSE j],
                         B.m[IF Rows64(B) = 1 THEN 1 ELSE i][IF Cols64(B) = 1 THEN 1 ELSE j])]])

\* np.kron(A, B)
Kron64(A, B) ==
    IF A.err \/ B.err THEN Err64
    ELSE Arr64([r \in 1..(Rows64(A) * Rows64(B)) |->
                 [c \in 1..(Cols64(A) * Cols64(B)) |->
                    ZMul(A.m[((r - 1) \div Rows64(B)) + 1][((c - 1) \div Cols64(B)) + 1],
                         B.m[((r - 1) % Rows64(B)) + 1][((c - 1) % Cols64(B)) + 1])]])

\* bitToVector
bitToVector64(bitstring) ==
    IF Len(bitstring) = 0 THEN Err64
    ELSE Arr64([i \in 1..Pow2(Len(bitstring)) |->
                  <<IF i = BinValue(bitstring) + 1 THEN ZOne ELSE ZZero>>])

\* invM with the factor 2**n instead of 2**n + 1
invM64Unshifted(rho, n) == Sub64(ScaleInt64(Pow2(n), rho), Eye64(Pow2(n)))

\* invM: (2**n + 1) * rho - np.eye(2**n)
invM64(rho, n) == Sub64(ScaleInt64(Pow2(n) + 1, rho), Eye64(Pow2(n)))

\* getSnapshot
getSnapshot64(state, U, n) ==
    LET rotated == Dot64(U, state)
        outer == Dot64(rotated, ConjT64(rotated))
    IN  invM64(outer, n)

\* H = np.array([[1,1],[1,-1]])/np.sqrt(2)
GateH64 ==
    LET h == <<InvSqrt2, DZero>>
    IN  Arr64(<< <<h, h>>, <<h, ZNeg(h)>> >>)
\* S = np.array([[1,0],[0,1j]])
GateS64 == Arr64(<< <<ZOne, ZZero>>, <<ZZero, <<DZero, DInt(1)>> >> >>)
\* I = np.eye(2)
GateI64 == Eye64(2)
\* controlled-X on two qubits
GateCX64 ==
    Arr64(<< <<ZOne, ZZero, ZZero, ZZero>>, <<ZZero, ZOne, ZZero, ZZero>>,
             <<ZZero, ZZero, ZZero, ZOne>>, <<ZZero, ZZero, ZOne, ZZero>> >>)

\* the single-qubit matrices of the notebook (Udgs), and the conjugate
\* transpose of S.dot(H)
Singles64 ==
    {GateH64, Dot64(GateS64, GateH64), GateI64, ConjT64(Dot64(GateS64, GateH64))}

\* every np.kron of n of the single-qubit matrices
RECURSIVE Products64(_)
Products64(n) ==
    IF n = 1 THEN Singles64
    ELSE {Kron64(A, B) : A \in Products64(n - 1), B \in Singles64}

\* I (x) ... (x) I, n - 2 factors
RECURSIVE Pad64(_, _)
Pad64(A, n) == IF n = 0 THEN A ELSE Pad64(Kron64(A, GateI64), n - 1)

\* unitaries of n qubits as numpy holds them: the products, and for n >= 2
\* the entangling (H (x) I).CX on the first two qubits
Unitaries64(n) ==
    Products64(n)
    \cup (IF n >= 2
          THEN {Pad64(Dot64(Kron64(GateH64, GateI64), GateCX64), n - 2)}
          ELSE {})

----------------------------------------------------------------------------
(* The driver: shadow = get_*_shadow(ghz, N, nq);                          *)
(* estimators = get_estimators(shadow, N, K);                              *)
(* prediction = get_fidelity_prediction(estimators, psi).                  *)

Ensembles == {"clifford", "pauli"}

\* values the variables hold before their first assignment
FreshCounters == shot = 0 /\ nSampled = 0 /\ nMeasured = 0 /\ exc = "none"
FreshShot ==
    Udg = ErrArr /\ qbases = <<>> /\ mc = <<>> /\ which_measure = <<>> /\ memory = <<>>
FreshResults == estimators = <<>> /\ prediction = NaN

Init ==
    /\ nqubits \in 1..MaxQubits
    /\ N \in 0..(MaxRunBits \div nqubits)
    /\ K \in (-1)..(N + 1)
    /\ ensemble \in Ensembles
    /\ psi = GHZState(nqubits)
    /\ pc = "loop"
    /\ shadow = <<>>
    /\ snapshot = ErrArr
    /\ FreshCounters /\ FreshShot /\ FreshResults

\* `for _ in range(N)`, next iteration: Udg, mc = n_clifford_circuit(nqubits)
\* or qbases, mc = n_pauli_circuit(nqubits)
Sample ==
    /\ pc = "loop"
    /\ shot < N
    /\ IF ensemble = "clifford"
       THEN /\ \E r \in n_clifford_circuit(nqubits) :
                  Udg' = r.Udg /\ mc' = r.qc
            /\ UNCHANGED <<qbases, which_measure>>
       ELSE /\ \E r \in n_pauli_circuit(nqubits) :
                  /\ qbases' = r.qbases
                  /\ mc' = r.qc
                  /\ which_measure' = r.which_measure
            /\ UNCHANGED Udg
    /\ nSampled' = nSampled + 1
    /\ pc' = "measure"
    /\ UNCHANGED <<N, K, nqubits, ensemble, psi, shot, memory, snapshot,
                   shadow, estimators, prediction, exc, nMeasured>>

\* `for _ in range(N)` exhausted: return shadow
Return ==
    /\ pc = "loop"
    /\ shot >= N
    /\ pc' = "aggregate"
    /\ UNCHANGED <<mc, which_measure, N, K, nqubits, ensemble, psi, shot, Udg, qbases, memory,
                   snapshot, shadow, estimators, prediction, exc, nSampled,
                   nMeasured>>

\* Measure with the backend's exception caught and the shot skipped
MeasureSkipFailed ==
    /\ pc = "measure"
    /\ nMeasured' = nMeasured + 1
    /\ \/ /\ memory' \in BitStrings(nqubits)
          /\ pc' = "build"
          /\ UNCHANGED exc
       \/ /\ pc' = "loop"
          /\ exc' = "OracleFailure"
          /\ UNCHANGED memory
    /\ UNCHANGED <<mc, which_measure, N, K, nqubits, ensemble, psi, shot, Udg, qbases, snapshot,
                   shadow, estimators, prediction, nSampled>>

\* job = qiskit.execute(qc, backend, shots=1, memory=True);
\* memory = job.result().get_memory(qc)[0]: one bit per classical bit of the
\* circuit, or the backend's exception, which nothing catches
Measure ==
    /\ pc = "measure"
    /\ nMeasured' = nMeasured + 1
    /\ \/ /\ memory' \in BitStrings(nqubits)
          /\ pc' = "build"
          /\ UNCHANGED exc
       \/ /\ pc' = "raised"
          /\ exc' = "OracleFailure"
          /\ UNCHANGED memory
    /\ UNCHANGED <<mc, which_measure, N, K, nqubits, ensemble, psi, shot, Udg, qbases, snapshot,
                   shadow, estimators, prediction, nSampled>>

\* the snapshot of the shot, by the builder of the ensemble
Build ==
    /\ pc = "build"
    /\ LET r == IF ensemble = "clifford"
                THEN buildCliffordSnapshot(memory, Udg, nqubits)
                ELSE buildPauliSnapshot(memory, qbases)
       IN  IF r.ok
           THEN snapshot' = r.val /\ pc' = "append" /\ UNCHANGED exc
           ELSE pc' = "raised" /\ exc' = r.exc /\ UNCHANGED snapshot
    /\ UNCHANGED <<mc, which_measure, N, K, nqubits, ensemble, psi, shot, Udg, qbases, memory,
                   shadow, estimators, prediction, nSampled, nMeasured>>

\* AppendShot with the snapshot put at the front: shadow = [snapshot] + shadow
AppendShotFront ==
    /\ pc = "append"
    /\ shadow' = <<snapshot>> \o shadow
    /\ shot' = shot + 1
    /\ pc' = "loop"
    /\ UNCHANGED <<mc, which_measure, N, K, nqubits, ensemble, psi, Udg, qbases, memory,
                   snapshot, estimators, prediction, exc, nSampled, nMeasured>>

\* shadow += [snapshot]
AppendShot ==
    /\ pc = "append"
    /\ shadow' = Append(shadow, snapshot)
    /\ shot' = shot + 1
    /\ pc' = "loop"
    /\ UNCHANGED <<mc, which_measure, N, K, nqubits, ensemble, psi, Udg, qbases, memory,
                   snapshot, estimators, prediction, exc, nSampled, nMeasured>>

\* estimators = get_estimators(shadow, N, K)
Aggregate ==
    /\ pc = "aggregate"
    /\ LET r == get_estimators(shadow, N, K)
       IN  IF r.ok
           THEN estimators' = r.val /\ pc' = "predict" /\ UNCHANGED exc
           ELSE pc' = "raised" /\ exc' = r.exc /\ UNCHANGED estimators
    /\ UNCHANGED <<mc, which_measure, N, K, nqubits, ensemble, psi, shot, Udg, qbases, memory,
                   snapshot, shadow, prediction, nSampled, nMeasured>>

\* prediction = get_fidelity_prediction(estimators, psi)
Predict ==
    /\ pc = "predict"
    /\ LET r == get_fidelity_prediction(estimators, psi)
       IN  IF r.ok
           THEN prediction' = r.val /\ pc' = "done" /\ UNCHANGED exc
           ELSE pc' = "raised" /\ exc' = r.exc /\ UNCHANGED prediction
    /\ UNCHANGED <<mc, which_measure, N, K, nqubits, ensemble, psi, shot, Udg, qbases, memory,
                   snapshot, shadow, estimators, nSampled, nMeasured>>

Next == Sample \/ Return \/ Measure \/ Build \/ AppendShot \/ Aggregate \/ Predict

Spec == Init /\ [][Next]_vars

----------------------------------------------------------------------------
(* The functions on their own: the same steps, started from every input of *)
(* a bounded set instead of from what the driver hands them.               *)

\* sequences over S of length 0..n
SeqsUpTo(S, n) == UNION {[1..k -> S] : k \in 0..n}

\* three snapshots of one qubit, as getSnapshot builds them
SnapshotSamples ==
    {getSnapshot(bitToVector(<<0>>), GateI, 1),
     getSnapshot(bitToVector(<<1>>), GateI, 1),
     getSnapshot(bitToVector(<<0>>), GateH, 1)}

\* get_estimators(shadow, N, K) called with any shadow, any N around its
\* length and any K
InitAgg ==
    /\ nqubits = 1
    /\ ensemble = "clifford"
    /\ psi = GHZState(1)
    /\ shadow \in SeqsUpTo(SnapshotSamples, MaxShadow)
    /\ N \in {n \in (Len(shadow) - 1)..(Len(shadow) + 1) : n >= 0}
    /\ K \in (-2)..(MaxShadow + 1)
    /\ pc = "aggregate"
    /\ snapshot = ErrArr
    /\ FreshCounters /\ FreshShot /\ FreshResults

SpecAgg == InitAgg /\ [][Aggregate]_vars

\* one-qubit estimators whose fidelity with |0> is v/2 for
\* v in {-2, 1, 1 + i, 4}
EstimatorSamples ==
    {[e |-> 0, d |-> 2, m |-> << <<v, CZero>>, <<CZero, CAdd(<<2, 0>>, CScale(-1, v))>> >>] :
        v \in {<<-2, 0>>, <<1, 0>>, <<1, 1>>, <<4, 0>>}}

\* get_fidelity_prediction(estimators, psi) called with any list of estimators
InitMed ==
    /\ nqubits = 1
    /\ ensemble = "clifford"
    /\ psi = GHZState(1)
    /\ N = 0
    /\ K = 1
    /\ shadow = <<>>
    /\ pc = "predict"
    /\ snapshot = ErrArr
    /\ FreshCounters /\ FreshShot
    /\ estimators \in SeqsUpTo(EstimatorSamples, MaxBatches)
    /\ prediction = NaN

SpecMed == InitMed /\ [][Predict]_vars

\* a snapshot builder called with any bitstring, any number of qubits and a
\* unitary / basis map made for any number of qubits
InitSnap ==
    /\ nqubits \in 1..MaxQubits
    /\ ensemble \in Ensembles
    /\ psi = GHZState(nqubits)
    /\ N = 1
    /\ K = 1
    /\ shadow = <<>>
    /\ pc = "build"
    /\ snapshot = ErrArr
    /\ FreshCounters /\ FreshResults
    /\ memory \in UNION {BitStrings(k) : k \in 0..MaxOutcome}
    /\ mc = <<>> /\ which_measure = <<>>
    /\ \E k \in 1..MaxQubits :
          IF ensemble = "clifford"
          THEN Udg \in {r.Udg : r \in n_clifford_circuit(k)} /\ qbases = <<>>
          ELSE qbases \in {r.qbases : r \in n_pauli_circuit(k)} /\ Udg = ErrArr

SpecSnap == InitSnap /\ [][Build]_vars

\* a sampler (n_clifford_circuit, n_pauli_circuit) called for any number of
\* qubits
InitSample ==
    /\ nqubits \in 1..MaxSampleQubits
    /\ ensemble \in Ensembles
    /\ psi = GHZState(nqubits)
    /\ N = 1
    /\ K = 1
    /\ shadow = <<>>
    /\ pc = "loop"
    /\ snapshot = ErrArr
    /\ FreshCounters /\ FreshShot /\ FreshResults

SpecSample == InitSample /\ [][Sample]_vars

\* get_clifford_shadow, one shot, in binary64:
\* b = bitToVector(memory); snapshot = getSnapshot(b, Udg, nqubits)
Build64 ==
    /\ pc = "build"
    /\ LET r == getSnapshot64(bitToVector64(memory), Udg, nqubits)
       IN  IF r.err
           THEN pc' = "raised" /\ exc' = "ValueError" /\ UNCHANGED snapshot
           ELSE snapshot' = r /\ pc' = "append" /\ UNCHANGED exc
    /\ UNCHANGED <<mc, which_measure, N, K, nqubits, ensemble, psi, shot, Udg,
                   qbases, memory, shadow, estimators, prediction, nSampled,
                   nMeasured>>

\* getSnapshot called with any outcome of n bits and any unitary of n qubits
Init64 ==
    /\ nqubits \in 1..MaxGlobalQubits
    /\ ensemble = "clifford"
    /\ psi = GHZState(nqubits)
    /\ N = 1
    /\ K = 1
    /\ shadow = <<>>
    /\ pc = "build"
    /\ snapshot = Err64
    /\ FreshCounters /\ FreshResults
    /\ memory \in BitStrings(nqubits)
    /\ Udg \in Unitaries64(nqubits)
    /\ qbases = <<>> /\ mc = <<>> /\ which_measure = <<>>

Spec64 == Init64 /\ [][Build64]_vars

----------------------------------------------------------------------------
(* Properties of the aggregator.                                           *)

\* the run is past get_estimators and get_estimators returned a list
Aggregated == pc \in {"predict", "done"}

\* shdw[lo] + ... + shdw[hi], summed from the right
RECURSIVE SumRange(_, _, _)
SumRange(shdw, lo, hi) ==
    IF lo = hi THEN shdw[lo] ELSE ArrAdd(shdw[lo], SumRange(shdw, lo + 1, hi))

\* C1: for a shadow of N snapshots, K >= 1 and m = floor(N/K) >= 1,
\* get_estimators returns exactly K estimators, and together they hold the
\* first K*m snapshots only (the trailing N - K*m contribute to none).
C1_ExactlyKEstimators ==
    (Aggregated /\ Len(shadow) = N /\ K >= 1 /\ N \div K >= 1) =>
        /\ Len(estimators) = K
        /\ SameArr(ScaleInt(N \div K, ReduceAdd(estimators)),
                   SumRange(shadow, 1, K * (N \div K)))

\* C2: for a shadow of N snapshots, K >= 1 and m = floor(N/K) >= 1, the i-th
\* estimator (i = 0..K-1) times m is the sum of shadow[i*m .. (i+1)*m - 1]:
\* the batches are contiguous, in shadow order, and disjoint.
C2_BatchMeans ==
    (Aggregated /\ Len(shadow) = N /\ K >= 1 /\ N \div K >= 1) =>
        LET m == N \div K
        IN  /\ Len(estimators) >= K
            /\ \A i \in 0..(K - 1) :
                  SameArr(ScaleInt(m, estimators[i + 1]),
                          SumRange(shadow, i * m + 1, (i + 1) * m))

\* C2, its case: two or more batches of two or more snapshots each, and a
\* remainder, have been averaged.
C2_Witness ==
    /\ Aggregated /\ Len(shadow) = N
    /\ K >= 2 /\ N \div K >= 2 /\ N % K # 0
    /\ shadow[1] # shadow[2]

\* C3: get_estimators raises, and returns no list at all, whenever K < 1 or
\* floor(N/K) < 1.
C3_InvalidKRaises ==
    (Aggregated /\ Len(shadow) = N) => (K >= 1 /\ N \div K >= 1)

\* C7: get_estimators(shadow, N, K) yields estimators only when the shadow
\* holds exactly N snapshots.
C7_OnlyCompleteShadows ==
    (Aggregated /\ estimators # <<>>) => Len(shadow) = N

----------------------------------------------------------------------------
(* Properties of the snapshot builders.                                    *)

\* the bitstring, the unitary or the basis map is not one of nqubits qubits
Mismatch ==
    \/ Len(memory) # nqubits
    \/ ensemble = "clifford" /\ Shape(Udg) # <<Pow2(nqubits), Pow2(nqubits)>>
    \/ ensemble = "pauli" /\ DOMAIN qbases # 0..(nqubits - 1)

\* C10: a builder handed a bitstring whose length is not n, or a unitary /
\* basis map that does not match n, raises and produces no snapshot.
C10_MismatchRaises ==
    (pc # "build" /\ Mismatch) => (pc = "raised" /\ snapshot = ErrArr)

\* the gates n_pauli_circuit puts on a qubit measured in basis id, as one
\* matrix: H for X, H.S^dagger (sdg first, then h) for Y, nothing for Z
BasisChange(id) ==
    IF id = 0 THEN GateH
    ELSE IF id = 1 THEN Dot(GateH, ConjT(GateS))
    ELSE GateI

\* the array A with its entries computed (once)
Computed(A) ==
    [e |-> A.e, d |-> A.d,
     m |-> ListOf([r \in 1..Rows(A) |-> ListOf(A.m[r])])]

\* 3 * (rotated outer product) - I_2 for qubit i: the outcome bit
\* outcome[n-1-i], as |bit>, rotated back by the basis change of qubit i
Factor(i) ==
    LET bit == memory[nqubits - i]
        ket == Arr(<< <<IF bit = 0 THEN COne ELSE CZero>>,
                      <<IF bit = 1 THEN COne ELSE CZero>> >>)
        back == Computed(ConjT(Computed(BasisChange(qbases[i]))))
        rotated == Computed(Dot(back, ket))
        outer == Computed(Dot(rotated, Computed(ConjT(rotated))))
    IN  Computed(ArrSub(Computed(ScaleInt(3, outer)), Eye(2)))

\* digit i (counted from the left, i = 0..n-1) of the n-bit index r
Digit(r, i) == (r \div Pow2(nqubits - 1 - i)) % 2

\* the product over i = lo..n-1 of entry (Digit(r, i), Digit(c, i)) of the
\* factor of qubit i, F[i + 1]
RECURSIVE EntryProduct(_, _, _, _)
EntryProduct(F, r, c, lo) ==
    IF lo >= nqubits THEN COne
    ELSE CMul(F[lo + 1].m[Digit(r, lo) + 1][Digit(c, lo) + 1],
              EntryProduct(F, r, c, lo + 1))

RECURSIVE SumE(_, _)
SumE(F, lo) == IF lo >= nqubits THEN 0 ELSE F[lo + 1].e + SumE(F, lo + 1)

RECURSIVE ProdD(_, _)
ProdD(F, lo) == IF lo >= nqubits THEN 1 ELSE F[lo + 1].d * ProdD(F, lo + 1)

\* Factor(0) (x) Factor(1) (x) ... (x) Factor(n-1), entry by entry
FactorProduct ==
    LET F == ListOf([k \in 1..nqubits |-> Factor(k - 1)])
    IN  [e |-> SumE(F, 0), d |-> ProdD(F, 0),
         m |-> ListOf([r \in 1..Pow2(nqubits) |->
                  ListOf([c \in 1..Pow2(nqubits) |->
                            EntryProduct(F, r - 1, c - 1, 0)])])]

\* the Pauli builder was handed an outcome and a basis map of nqubits qubits
PauliBuilt ==
    /\ ensemble = "pauli" /\ pc \in {"append", "raised"}
    /\ Len(memory) = nqubits
    /\ DOMAIN qbases = 0..(nqubits - 1)

\* C12: for every outcome of length n and every basis assignment, the
\* snapshot of get_pauli_shadow's inner loop is the Kronecker product whose
\* i-th factor from the left (i = 0..n-1) is 3 * (rotated outer product) - I_2
\* built from bit outcome[n-1-i] and from the basis id of qubit i; for n = 1
\* it is that single 2x2 factor.
C12_FactorOrder ==
    PauliBuilt =>
        /\ pc = "append"
        /\ SameArr(snapshot, FactorProduct)
        /\ nqubits = 1 => SameArr(snapshot, Factor(0))

\* C12, its case: two qubits with different outcome bits and different
\* bases, so that either order of the bits gives another snapshot.
C12_Witness ==
    /\ PauliBuilt /\ pc = "append" /\ nqubits = 2
    /\ memory = <<0, 1>>
    /\ qbases[0] = 1 /\ qbases[1] = 2

\* a <= b for dyadic numbers
DLeq(a, b) == XAdd(b, DNeg(a)).s >= 0

\* A[lo][lo] + ... + A[k][k], part p (1: real, 2: imaginary), summed exactly
RECURSIVE DiagSum(_, _, _)
DiagSum(A, lo, p) ==
    IF lo > Rows64(A) THEN DZero
    ELSE XAdd(A.m[lo][lo][p], DiagSum(A, lo + 1, p))

\* (2^n + 1) * M0 - I, entry (i, j): M0 is the outer product of column
\* int(memory, 2) of Udg (the rotated one-hot vector) with itself
GlobalEntry(i, j) ==
    LET col == BinValue(memory) + 1
        m0 == ZMul(Udg.m[i][col], ZConj(Udg.m[j][col]))
        scaled == <<FMul(DInt(Pow2(nqubits) + 1), m0[1]),
                    FMul(DInt(Pow2(nqubits) + 1), m0[2])>>
    IN  ZSub(scaled, IF i = j THEN ZOne ELSE ZZero)

\* getSnapshot returned, and gave (2^n + 1) * M0 - I, a Hermitian matrix
GlobalShape ==
    /\ pc = "append"
    /\ Rows64(snapshot) = Pow2(nqubits) /\ Cols64(snapshot) = Pow2(nqubits)
    /\ \A i, j \in 1..Pow2(nqubits) :
          /\ snapshot.m[i][j] = GlobalEntry(i, j)
          /\ snapshot.m[i][j] = ZConj(snapshot.m[j][i])

\* no entry of Udg needs rounding when squared: all are 0, 1, -1, i or -i
ExactEntries ==
    \A i, j \in 1..Rows64(Udg) : \A p \in 1..2 :
        Udg.m[i][j][p] \in {DZero, DInt(1), DInt(-1)}

----------------------------------------------------------------------------
(* Properties of the samplers.                                             *)

\* n_pauli_circuit has returned in this shot
PauliSampled == ensemble = "pauli" /\ pc = "measure"

\* the names of the gates mc holds on qubit q, in circuit order
GatesOn(q) ==
    LET OnQ(ins) == q \in ins.qubits
        sel == SelectSeq(mc, OnQ)
    IN  [i \in 1..Len(sel) |-> sel[i].gate]

\* C11: n_pauli_circuit assigns to every qubit index 0..n-1 exactly one
\* basis id, chosen from that qubit's own draw (X = 0 if draw < 1/3, Y = 1
\* if 1/3 <= draw < 2/3, Z = 2 otherwise), and the gates on that qubit
\* before its measurement match the id: h for X, sdg then h for Y, none
\* for Z.  (The draws are in sixths: 0 and 1 lie below 1/3, 2 and 3 in
\* [1/3, 2/3), 4 and 5 at or above 2/3.)
C11_BasisPerQubit ==
    PauliSampled =>
        /\ DOMAIN qbases = 0..(nqubits - 1)
        /\ DOMAIN which_measure = 0..(nqubits - 1)
        /\ \A q \in 0..(nqubits - 1) :
              /\ qbases[q] \in {0, 1, 2}
              /\ qbases[q] = 0 <=> which_measure[q] \in {0, 1}
              /\ qbases[q] = 1 <=> which_measure[q] \in {2, 3}
              /\ qbases[q] = 2 <=> which_measure[q] \in {4, 5}
              /\ qbases[q] = 0 => GatesOn(q) = <<"h", "measure">>
              /\ qbases[q] = 1 => GatesOn(q) = <<"sdg", "h", "measure">>
              /\ qbases[q] = 2 => GatesOn(q) = <<"measure">>

\* C11, its case: three qubits drew X, Y and Z, the Y one from a draw of
\* exactly 1/3 and the Z one from a draw of exactly 2/3.
C11_Witness ==
    /\ PauliSampled /\ nqubits = 3
    /\ which_measure[0] = 1 /\ which_measure[1] = 2 /\ which_measure[2] = 4
    /\ qbases = [q \in 0..2 |-> q]

----------------------------------------------------------------------------
(* Properties of a pipeline run.                                           *)

\* C4: in a run configured with K < 1 or K > N nothing is sampled and the
\* backend is never called.
C4_NoSamplingOnInvalidConfig ==
    (K < 1 \/ K > N) => (nSampled = 0 /\ nMeasured = 0)


\* what holds at each position of the shot loop
C5_Order ==
    /\ Len(shadow) = shot /\ shot <= N
    /\ pc = "loop" => nSampled = shot /\ nMeasured = shot
    /\ pc = "measure" => nSampled = shot + 1 /\ nMeasured = shot
    /\ pc \in {"build", "append"} => nSampled = shot + 1 /\ nMeasured = shot + 1
    /\ pc = "append" =>
          snapshot = (IF ensemble = "clifford"
                      THEN buildCliffordSnapshot(memory, Udg, nqubits)
                      ELSE buildPauliSnapshot(memory, qbases)).val
    /\ pc \in {"aggregate", "predict", "done"} =>
          shot = N /\ nSampled = N /\ nMeasured = N
    /\ (pc = "raised" /\ exc # "OracleFailure") => shot = N

\* what a step may change
C5_Step ==
    /\ shadow' # shadow => pc = "append" /\ shadow' = Append(shadow, snapshot)
    /\ (estimators' # estimators \/ prediction' # prediction) =>
          Len(shadow) = N /\ shadow' = shadow

\* C5: each shot samples, then measures once, then builds one snapshot, then
\* appends it at the end of the shadow, leaving the earlier snapshots as they
\* are; the shadow handed on holds exactly N snapshots, and get_estimators
\* and get_fidelity_prediction run only after the N-th append.
C5_ShotLoop == []C5_Order /\ [][C5_Step]_vars

\* C5, its case: a run of two or more shots with differing snapshots ended.
C5_Witness ==
    pc = "done" /\ N >= 2 /\ Len(shadow) = N /\ shadow[1] # shadow[2]

\* the state a failed backend call leaves
C6_Failed ==
    exc = "OracleFailure" =>
        /\ pc = "raised"
        /\ shot < N /\ Len(shadow) = shot
        /\ nSampled = shot + 1 /\ nMeasured = shot + 1
        /\ estimators = <<>> /\ prediction = NaN

\* C6: a failed backend call ends the run with that failure: the backend is
\* not called again, nothing is appended for the shot, and no shadow, no
\* estimators and no prediction are produced (no step follows the failure).
C6_OracleFailurePropagates == []C6_Failed /\ [][exc # "OracleFailure"]_vars

\* C6, its case: the backend failed in a shot after the first.
C6_Witness == exc = "OracleFailure" /\ pc = "raised" /\ shot >= 1

----------------------------------------------------------------------------
(* Properties of the median-of-means estimator.                            *)

\* num / (d * 2^(e/2)) as a fraction <<numerator, denominator>> (e is even
\* for every fidelity of an estimator)
QOf(num, x) == <<num, x.d * Pow2(x.e \div 2)>>
QLeq(a, b) == a[1] * b[2] <= b[1] * a[2]
QEq(a, b) == a[1] * b[2] = b[1] * a[2]
QSum2(a, b) == <<a[1] * b[2] + b[1] * a[2], a[2] * b[2]>>

\* the real parts of the K functional values, and the prediction
Values ==
    ListOf([i \in 1..Len(estimators) |->
              LET f == state_fidelity(psi, estimators[i]) IN QOf(f.z[1], f)])
Pred == QOf(prediction.re, prediction)
AtMost(V, v) == Cardinality({j \in 1..Len(V) : QLeq(V[j], v)})
AtLeast(V, v) == Cardinality({j \in 1..Len(V) : QLeq(v, V[j])})

\* C8: for K >= 1 values the prediction is the real part of their median:
\* for odd K a value with at least (K+1)/2 values on either side of it
\* (itself included), for even K the mean of the lower and the upper middle
\* value; nothing clamps it.
C8_Median ==
    (pc = "done" /\ Len(estimators) >= 1) =>
        LET n == Len(estimators)
            V == Values
            p == Pred
        IN  /\ ~prediction.nan
            /\ IF n % 2 = 1
               THEN \E i \in 1..n :
                       /\ QEq(V[i], p)
                       /\ AtMost(V, V[i]) >= (n + 1) \div 2
                       /\ AtLeast(V, V[i]) >= (n + 1) \div 2
               ELSE \E i, j \in 1..n :
                       /\ i # j
                       /\ QEq(<<2 * p[1], p[2]>>, QSum2(V[i], V[j]))
                       /\ AtMost(V, V[i]) >= n \div 2
                       /\ AtLeast(V, V[i]) >= (n \div 2) + 1
                       /\ AtMost(V, V[j]) >= (n \div 2) + 1
                       /\ AtLeast(V, V[j]) >= n \div 2

\* C8, its case: an even number of values whose median is above 1 and is
\* none of the values.
C8_Witness ==
    /\ pc = "done" /\ Len(estimators) = 4
    /\ ~QLeq(Pred, <<1, 1>>)
    /\ \A i \in 1..4 : ~QEq(Values[i], Pred)

\* C9: whichever floor(K/2) - 1 or fewer of the K values are the corrupted
\* ones, the prediction lies between the smallest and the largest of the
\* others.
C9_Robust ==
    (pc = "done" /\ Len(estimators) >= 1) =>
        LET n == Len(estimators)
            V == Values
            p == Pred
        IN  \A good \in SUBSET (1..n) :
               n - Cardinality(good) <= (n \div 2) - 1 =>
                  /\ \E i \in good : QLeq(V[i], p)
                  /\ \E i \in good : QLeq(p, V[i])

\* C9, its case: one of four or more values lies above all the others and
\* above the prediction.
C9_Witness ==
    /\ pc = "done" /\ Len(estimators) >= 4
    /\ LET V == Values
       IN  \E i \in 1..Len(V) :
              /\ \A j \in 1..Len(V) \ {i} : ~QLeq(V[i], V[j])
              /\ ~QLeq(V[i], Pred)

====
